---- MODULE Spec2Model ----
(***************************************************************************)
(* Model of the image-generation backend: the Flask request handlers of    *)
(* app.py over the sqlite table `images`, the HuggingFaceAPI client of     *)
(* huggingface_api.py and the base64 codec of utils.py.                    *)
(*                                                                         *)
(* Conventions                                                             *)
(*  - a JSON body / query string is a function from the keys it holds to   *)
(*    their values, so `'k' in data` is  k \in DOMAIN data;                *)
(*  - a JSON number that a handler converts with int() or float() is      *)
(*    fixed point, in hundredths: Num(128) is 128, 750 is 7.5, 75 is 0.75; *)
(*    float() keeps it, int() truncates it to a whole number;              *)
(*  - text and bytes are sequences of tokens;                              *)
(*  - the table is the sequence of its rows in insertion order; rows are   *)
(*    never deleted, so AUTOINCREMENT gives row i the id i.                *)
(***************************************************************************)
EXTENDS Integers, Sequences, FiniteSets, TLC

VARIABLES
    store,   \* the committed rows of table images
    last,    \* the request handled by the last step and its response
    proc,    \* concurrent save_feedback requests: position, body, response
    txn      \* the sqlite write transaction: its owner and uncommitted update

vars == <<store, last, proc, txn>>

----------------------------------------------------------------------------
(* Bounds of the model *)

MaxRows == 2      \* rows the table may hold
MaxClock == 1     \* last second of the database clock (it starts at 0)

----------------------------------------------------------------------------
(* Python values *)

\* Python's None where an integer seed is expected (seeds are >= 0)
None == -1

\* A JSON value whose Python type matters is [t |-> type, v |-> number]:
\* JSON true is [t |-> "bool", v |-> 1], since bool is a subclass of int and
\* True == 1
IsInstanceInt(x) == x.t \in {"int", "bool"}

\* the JSON number n, in hundredths
Num(n) == 100 * n

\* int(x) of a JSON number: truncation towards zero
ToInt(x) == IF x >= 0 THEN x \div 100 ELSE -((-x) \div 100)

EmptyDict == [k \in {} |-> 0]

\* dict.get(key, default)
Get(data, key, default) == IF key \in DOMAIN data THEN data[key] ELSE default

\* `not data` of a parsed JSON body
Falsy(data) == DOMAIN data = {}

----------------------------------------------------------------------------
(* utils.py: the codec.  A PIL image is its pixel content; its PNG file is *)
(* the PNG signature followed by the pixels.                               *)

PngMagic == "\\x89PNG"
B64Marker == "base64,"
DataUriHead == "data:image/png;"

\* the base64 alphabet of the model: byte token -> text token
B64Table == (PngMagic :> "iVBORw") @@ ("px1" :> "cHgx") @@ ("px2" :> "cHgy")
              @@ ("err" :> "ZXJy")

B64Encode(bytes) == [i \in 1..Len(bytes) |-> B64Table[bytes[i]]]

B64Decodable(text) ==
    \A i \in 1..Len(text) : \E b \in DOMAIN B64Table : B64Table[b] = text[i]

B64Decode(text) ==
    [i \in 1..Len(text) |-> CHOOSE b \in DOMAIN B64Table : B64Table[b] = text[i]]

\* Image.open(io.BytesIO(bytes)): the pixels, or an exception
CanOpen(bytes) == Len(bytes) >= 1 /\ bytes[1] = PngMagic
ImageOpen(bytes) == Tail(bytes)

\* image.save(buffer, format="PNG")
SavePng(image) == <<PngMagic>> \o image

\* str.split("base64,")[1]: the text between the first marker and the next
AfterMarker(text) ==
    LET first == CHOOSE i \in 1..Len(text) :
                    /\ text[i] = B64Marker
                    /\ \A j \in 1..(i-1) : text[j] # B64Marker
        rest == SubSeq(text, first + 1, Len(text))
        stop == IF \E i \in 1..Len(rest) : rest[i] = B64Marker
                THEN (CHOOSE i \in 1..Len(rest) :
                        /\ rest[i] = B64Marker
                        /\ \A j \in 1..(i-1) : rest[j] # B64Marker) - 1
                ELSE Len(rest)
    IN  SubSeq(rest, 1, stop)

StripPrefix(text) ==
    IF \E i \in 1..Len(text) : text[i] = B64Marker THEN AfterMarker(text) ELSE text

\* base64_to_image: [ok, image]
base64_to_image(text) ==
    LET payload == StripPrefix(text)
    IN  IF B64Decodable(payload) /\ CanOpen(B64Decode(payload))
        THEN [ok |-> TRUE, image |-> ImageOpen(B64Decode(payload))]
        ELSE [ok |-> FALSE, image |-> <<>>]

\* image_to_base64
image_to_base64(image) == <<DataUriHead, B64Marker>> \o B64Encode(SavePng(image))

----------------------------------------------------------------------------
(* huggingface_api.py: the inference client.  The remote endpoint is       *)
(* opaque: what it answers is an input of the step.                        *)

\* response.status_code != 200
StatusFails(response) == response.status # 200

\* a call raises on a non-200 status, or when Image.open rejects the body
CallFails(response) == StatusFails(response) \/ ~CanOpen(response.content)

\* the seed reported by a response header, else `otherwise`
SeedOf(response, otherwise) ==
    IF response.seed # None THEN response.seed ELSE otherwise

\* HuggingFaceAPI.generate_image: one call; [ok, image, prompt, seed]
HfGenerateImage(prompt, seed, response) ==
    IF CallFails(response)
    THEN [ok |-> FALSE, image |-> <<>>, prompt |-> prompt, seed |-> None]
    ELSE [ok |-> TRUE,
          image |-> image_to_base64(ImageOpen(response.content)),
          prompt |-> prompt,
          seed |-> SeedOf(response, seed)]

\* what the endpoint answers to call i of a batch: up.failure to call number
\* up.failAt, up.success to the others
Answer(up, i) == IF i = up.failAt THEN up.failure ELSE up.success

\* the first call of 1..n that raises, 0 when none does
FirstFailure(n, up) ==
    IF \E i \in 1..n : CallFails(Answer(up, i))
    THEN CHOOSE i \in 1..n :
            /\ CallFails(Answer(up, i))
            /\ \A j \in 1..(i-1) : ~CallFails(Answer(up, j))
    ELSE 0

\* HuggingFaceAPI.generate_variations: num_variations calls one after the
\* other, each uploading the same source image; up.random[i] is the draw of
\* random.randint for item i.  The first failing call raises, and the list
\* built so far is lost: [ok, calls, results]
HfGenerateVariations(image, prompt, num_variations, up) ==
    LET k == FirstFailure(num_variations, up)
    IN  IF k # 0
        THEN [ok |-> FALSE, calls |-> k, results |-> <<>>]
        ELSE [ok |-> TRUE, calls |-> num_variations,
              results |-> [i \in 1..num_variations |->
                  [image |-> image_to_base64(ImageOpen(Answer(up, i).content)),
                   prompt |-> prompt,
                   seed |-> SeedOf(Answer(up, i), up.random[i])]]]

----------------------------------------------------------------------------
(* app.py: the table `images` *)

\* AUTOINCREMENT: one more than the largest id ever committed
NextId(rows) == Len(rows) + 1

\* INSERT INTO images (prompt, image_data, seed, params): id is assigned,
\* created_at is CURRENT_TIMESTAMP, feedback is its default 0
InsertRow(rows, prompt, image_data, seed, params, t) ==
    Append(rows, [id |-> NextId(rows), prompt |-> prompt,
                  image_data |-> image_data, created_at |-> t,
                  seed |-> seed, params |-> params, feedback |-> 0])

\* cursor.lastrowid after an INSERT
LastRowIdStale(rows) == Len(rows) - 1

LastRowId(rows) == rows[Len(rows)].id

\* UPDATE images SET feedback = ? WHERE id = ?
UpdateFeedbackAllRows(rows, image_id, feedback) ==
    [i \in 1..Len(rows) |-> [rows[i] EXCEPT !.feedback = feedback]]

UpdateFeedbackReplaceRow(rows, image_id, feedback) ==
    [i \in 1..Len(rows) |->
        IF rows[i].id = image_id
        THEN [rows[i] EXCEPT !.feedback = feedback, !.seed = None]
        ELSE rows[i]]

UpdateFeedback(rows, image_id, feedback) ==
    [i \in 1..Len(rows) |->
        IF rows[i].id = image_id
        THEN [rows[i] EXCEPT !.feedback = feedback]
        ELSE rows[i]]

\* cursor.rowcount of that UPDATE
RowCount(rows, image_id) ==
    Cardinality({i \in 1..Len(rows) : rows[i].id = image_id})

\* `with sqlite3.connect(DB_PATH) as conn`: leaving the block commits the
\* transaction, and rolls it back when the block raised
ConnExitKeep(before, after, raised) == after

ConnExit(before, after, raised) == IF raised THEN before ELSE after

\* SELECT ... WHERE id = ?: the rows found
SelectById(rows, image_id) ==
    SelectSeq(rows, LAMBDA r : r.id = image_id)

\* the columns of the listing: every column but params
Summary(r) == [id |-> r.id, prompt |-> r.prompt, image_data |-> r.image_data,
               created_at |-> r.created_at, seed |-> r.seed,
               feedback |-> r.feedback]

\* ORDER BY created_at DESC fixes the order of rows only up to equal
\* created_at: the orders (of row positions) a SELECT may produce
Orderings(rows) ==
    {p \in [1..Len(rows) -> 1..Len(rows)] :
        /\ \A i, j \in 1..Len(rows) : i # j => p[i] # p[j]
        /\ \A i \in 1..(Len(rows) - 1) :
              rows[p[i]].created_at >= rows[p[i+1]].created_at}

\* LIMIT ? OFFSET ? of an ordered result
Page(seq, limit, offset) ==
    SubSeq(seq, offset + 1, IF offset + limit < Len(seq) THEN offset + limit
                            ELSE Len(seq))

\* SELECT id, prompt, image_data, created_at, seed, feedback FROM images
\* ORDER BY created_at DESC LIMIT ? OFFSET ?, in the order `order`
SelectPage(rows, order, limit, offset) ==
    Page([i \in 1..Len(rows) |-> Summary(rows[order[i]])], limit, offset)

----------------------------------------------------------------------------
(* app.py: the request handlers.  Each is the function from the table, the *)
(* request and what the environment answers (the endpoint's response, a    *)
(* failure of the storage engine) to the new table and the response:       *)
(* [store, status, body, hfCalls, dbStmts], where hfCalls counts the       *)
(* requests.post calls made and dbStmts the cursor.execute calls made.     *)

Reply(rows, status, body, hfCalls, dbStmts) ==
    [store |-> rows, status |-> status, body |-> body,
     hfCalls |-> hfCalls, dbStmts |-> dbStmts]

Error(msg) == [error |-> msg]

\* height < 128 or height > 1024 or width < 128 or width > 1024
ValidDimensionsExclusive(height, width) ==
    ~(height <= 128 \/ height >= 1024 \/ width <= 128 \/ width >= 1024)

ValidDimensions(height, width) ==
    ~(height < 128 \/ height > 1024 \/ width < 128 \/ width > 1024)

\* num_inference_steps < 1 or num_inference_steps > 150
ValidSteps(num_inference_steps) ==
    ~(num_inference_steps < 1 \/ num_inference_steps > 150)

\* guidance_scale < 1.0 or guidance_scale > 20.0
ValidGuidance(guidance_scale) == ~(guidance_scale < 100 \/ guidance_scale > 2000)

\* the params snapshot of a generated image
GenerateParams(negative_prompt, height, width, num_inference_steps, guidance_scale) ==
    [negative_prompt |-> negative_prompt, height |-> height, width |-> width,
     num_inference_steps |-> num_inference_steps,
     guidance_scale |-> guidance_scale]

\* POST /api/generate.  dbFail: the INSERT raises
generate_image(rows, data, t, response, dbFail) ==
    IF Falsy(data) \/ "prompt" \notin DOMAIN data
    THEN Reply(rows, 400, Error("Prompt is required"), 0, 0)
    ELSE
    LET prompt == data["prompt"]
        negative_prompt == Get(data, "negative_prompt", "")
        height == ToInt(Get(data, "height", Num(512)))
        width == ToInt(Get(data, "width", Num(512)))
        num_inference_steps == ToInt(Get(data, "num_inference_steps", Num(50)))
        guidance_scale == Get(data, "guidance_scale", 750)
        seed == Get(data, "seed", None)
        result == HfGenerateImage(prompt, seed, response)
        params == GenerateParams(negative_prompt, height, width,
                                 num_inference_steps, guidance_scale)
        after == InsertRow(rows, prompt, result.image, result.seed, params, t)
    IN  IF ~ValidDimensions(height, width)
        THEN Reply(rows, 400, Error("Height and width must be between 128 and 1024"), 0, 0)
        ELSE IF ~ValidSteps(num_inference_steps)
        THEN Reply(rows, 400, Error("Number of inference steps must be between 1 and 150"), 0, 0)
        ELSE IF ~ValidGuidance(guidance_scale)
        THEN Reply(rows, 400, Error("Guidance scale must be between 1.0 and 20.0"), 0, 0)
        ELSE IF ~result.ok
        THEN Reply(rows, 500, Error("API request failed"), 1, 0)
        ELSE IF dbFail
        THEN Reply(ConnExit(rows, rows, TRUE), 500, Error("database error"), 1, 1)
        ELSE Reply(ConnExit(rows, after, FALSE), 200,
                   [id |-> LastRowId(after), image |-> result.image,
                    prompt |-> result.prompt, seed |-> result.seed], 1, 1)

\* strength < 0.0 or strength > 1.0
ValidStrength(strength) == ~(strength < 0 \/ strength > 100)

\* num_variations < 1 or num_variations > 10
ValidNumVariations(num_variations) == ~(num_variations < 1 \/ num_variations > 10)

\* the params snapshot of a variation
VariationParamsDefault(negative_prompt, strength, num_inference_steps, guidance_scale) ==
    [negative_prompt |-> "", strength |-> 75,
     num_inference_steps |-> 50, guidance_scale |-> 750]

VariationParams(negative_prompt, strength, num_inference_steps, guidance_scale) ==
    [negative_prompt |-> negative_prompt, strength |-> strength,
     num_inference_steps |-> num_inference_steps,
     guidance_scale |-> guidance_scale]

\* the table after the first n passes of the loop `for result in results`;
\* insert number i is stamped times[i]
RECURSIVE InsertResults(_, _, _, _, _)
InsertResults(rows, results, params, times, n) ==
    IF n = 0 THEN rows
    ELSE InsertRow(InsertResults(rows, results, params, times, n - 1),
                   results[n].prompt, results[n].image, results[n].seed,
                   params, times[n])

\* the list `variations` after n passes: the id of each insert with its result
VariationList(rows, results, n) ==
    [i \in 1..n |-> [id |-> LastRowId(SubSeq(rows, 1, Len(rows) - n + i)),
                     image |-> results[i].image, prompt |-> results[i].prompt,
                     seed |-> results[i].seed]]

\* POST /api/variations.  dbFailAt: the INSERT of that pass raises (0: none)
generate_variations(rows, data, times, up, dbFailAt) ==
    IF Falsy(data) \/ "image" \notin DOMAIN data
    THEN Reply(rows, 400, Error("Image is required"), 0, 0)
    ELSE
    LET image_data == data["image"]
        prompt == Get(data, "prompt", "")
        negative_prompt == Get(data, "negative_prompt", "")
        strength == Get(data, "strength", 75)
        num_inference_steps == ToInt(Get(data, "num_inference_steps", Num(50)))
        guidance_scale == Get(data, "guidance_scale", 750)
        num_variations == ToInt(Get(data, "num_variations", Num(4)))
        image == base64_to_image(image_data)
        hf == HfGenerateVariations(image.image, prompt, num_variations, up)
        params == VariationParams(negative_prompt, strength,
                                  num_inference_steps, guidance_scale)
        raised == dbFailAt \in 1..num_variations
        done == IF raised THEN dbFailAt - 1 ELSE num_variations
        after == InsertResults(rows, hf.results, params, times, done)
    IN  IF ~ValidStrength(strength)
        THEN Reply(rows, 400, Error("Strength must be between 0.0 and 1.0"), 0, 0)
        ELSE IF ~ValidNumVariations(num_variations)
        THEN Reply(rows, 400, Error("Number of variations must be between 1 and 10"), 0, 0)
        ELSE IF ~image.ok
        THEN Reply(rows, 500, Error("cannot identify image"), 0, 0)
        ELSE IF ~hf.ok
        THEN Reply(rows, 500, Error("API request failed"), hf.calls, 0)
        ELSE IF raised
        THEN Reply(ConnExit(rows, after, TRUE), 500, Error("database error"),
                   hf.calls, dbFailAt)
        ELSE Reply(ConnExit(rows, after, FALSE), 200,
                   VariationList(after, hf.results, num_variations),
                   hf.calls, num_variations)

\* GET /api/images.  order: the order the SELECT produces
get_images(rows, args, order, dbFail) ==
    LET limit == Get(args, "limit", 20)
        offset == Get(args, "offset", 0)
    IN  IF limit < 1 \/ limit > 100
        THEN Reply(rows, 400, Error("Limit must be between 1 and 100"), 0, 0)
        ELSE IF offset < 0
        THEN Reply(rows, 400, Error("Offset must be non-negative"), 0, 0)
        ELSE IF dbFail
        THEN Reply(ConnExit(rows, rows, TRUE), 500, Error("database error"), 0, 1)
        ELSE Reply(ConnExit(rows, rows, FALSE), 200,
                   SelectPage(rows, order, limit, offset), 0, 1)

\* GET /api/images/<int:image_id>
get_image(rows, image_id, dbFail) ==
    LET found == SelectById(rows, image_id)
    IN  IF dbFail
        THEN Reply(ConnExit(rows, rows, TRUE), 500, Error("database error"), 0, 1)
        ELSE IF found = <<>>
        THEN Reply(ConnExit(rows, rows, FALSE), 404, Error("Image not found"), 0, 1)
        ELSE Reply(ConnExit(rows, rows, FALSE), 200, found[1], 0, 1)

\* not isinstance(feedback, int) or feedback < -1 or feedback > 1
ValidFeedback(feedback) ==
    ~(~IsInstanceInt(feedback) \/ feedback.v < -1 \/ feedback.v > 1)

\* POST /api/feedback
save_feedback(rows, data, dbFail) ==
    IF Falsy(data) \/ "image_id" \notin DOMAIN data \/ "feedback" \notin DOMAIN data
    THEN Reply(rows, 400, Error("Image ID and feedback are required"), 0, 0)
    ELSE
    LET image_id == data["image_id"]
        feedback == data["feedback"]
        after == UpdateFeedback(rows, image_id, feedback.v)
    IN  IF ~ValidFeedback(feedback)
        THEN Reply(rows, 400, Error("Feedback must be -1, 0, or 1"), 0, 0)
        ELSE IF dbFail
        THEN Reply(ConnExit(rows, rows, TRUE), 500, Error("database error"), 0, 1)
        ELSE IF RowCount(rows, image_id) = 0
        THEN Reply(ConnExit(rows, after, FALSE), 404, Error("Image not found"), 0, 1)
        ELSE Reply(ConnExit(rows, after, FALSE), 200, [success |-> TRUE], 0, 1)

----------------------------------------------------------------------------
(* The environment: request bodies, endpoint answers, clock *)

PngBytes == <<PngMagic, "px1">>

GoodResponses ==
    {[status |-> 200, content |-> PngBytes, seed |-> None]}

BadResponses ==
    {[status |-> 503, content |-> <<"err">>, seed |-> None],
     [status |-> 200, content |-> <<"err">>, seed |-> None]}

\* answers that report the seed in a header
SeededResponses ==
    {[status |-> 200, content |-> PngBytes, seed |-> 9]}

Responses == GoodResponses \cup BadResponses

BasicGenerateBodies == {EmptyDict, ("prompt" :> "a cat") @@ ("seed" :> 7)}

GenerateBodies == BasicGenerateBodies \cup {"prompt" :> "", "prompt" :> "a cat"}

\* every combination of the values at, one unit outside and just outside
\* the bounds
BoundaryBodies ==
    {("prompt" :> "a cat") @@ ("height" :> h) @@ ("width" :> w)
        @@ ("num_inference_steps" :> n) @@ ("guidance_scale" :> g) :
        h \in {Num(127), Num(128) - 10, Num(128), Num(1024), Num(1024) + 90, Num(1025)},
        w \in {Num(127), Num(128), Num(1024), Num(1025)},
        n \in {Num(0), Num(1), Num(150), Num(150) + 90, Num(151)},
        g \in {0, 99, 100, 2000, 2001, 2100}}

GoodImage == image_to_base64(<<"px2">>)

VariationBody(n) ==
    ("image" :> GoodImage) @@ ("strength" :> 100) @@ ("num_variations" :> Num(n))

BasicVariationBodies == {EmptyDict, VariationBody(1)}

VariationBodies ==
    {VariationBody(n) : n \in {0, 1, 2, 10, 11}}
        \cup {EmptyDict, "image" :> <<"ZXJy">>, "image" :> B64Encode(PngBytes),
              ("image" :> GoodImage) @@ ("strength" :> 101)}

BasicListArgs == {EmptyDict, ("limit" :> 1) @@ ("offset" :> 1)}

ListArgs ==
    {("limit" :> l) @@ ("offset" :> o) : l \in {1, 2}, o \in {0, 1, 2}}
        \cup {EmptyDict, "limit" :> 0, "limit" :> 101, "offset" :> -1}

ImageIds == 1..(MaxRows + 1)

IntFeedback(n) == [t |-> "int", v |-> n]

FeedbackBodies ==
    {("image_id" :> i) @@ ("feedback" :> IntFeedback(n)) :
        i \in ImageIds, n \in {-1, 0, 1}}
    \cup {("image_id" :> 1) @@ ("feedback" :> f) :
            f \in {IntFeedback(-2), IntFeedback(2), [t |-> "bool", v |-> 1],
                   [t |-> "float", v |-> 1], [t |-> "str", v |-> 0]}}
    \cup {"image_id" :> 1, "feedback" :> IntFeedback(1)}

\* the clock never runs backwards: CURRENT_TIMESTAMP of the next insert is
\* no earlier than that of the last one
LastStamp(rows) == IF rows = <<>> THEN 0 ELSE rows[Len(rows)].created_at

\* the stamps of n inserts starting at second t, the clock ticking before
\* insert number tickAt (0: no tick)
Stamps(n, t, tickAt) ==
    [i \in 1..n |-> IF tickAt \in 1..i THEN t + 1 ELSE t]

\* what the endpoint may answer to a batch of n calls, with the draws of
\* random.randint among `randoms`; a batch that succeeds is considered only
\* while the table has room for its n rows
UpstreamBatches(n, room, randoms) ==
    {[failAt |-> k, failure |-> f, success |-> s, random |-> <<>>] :
        k \in 1..n, f \in BadResponses, s \in GoodResponses}
    \cup (IF n <= room
          THEN {[failAt |-> 0, failure |-> s, success |-> s, random |-> r] :
                    s \in GoodResponses, r \in [1..n -> randoms]}
          ELSE {})

----------------------------------------------------------------------------
(* One step per request.  `last` records the request and its response,     *)
(* with what the environment did to it: upFailed, the last call made to    *)
(* the endpoint failed; dbFailed, the last storage statement raised.       *)
(* Inputs that the handler never reads are fixed, so that one request has  *)
(* one step.                                                               *)

Record(op, data, r, upFailed, dbFailed) ==
    [op |-> op, data |-> data, status |-> r.status, body |-> r.body,
     hfCalls |-> r.hfCalls, dbStmts |-> r.dbStmts,
     upFailed |-> upFailed, dbFailed |-> dbFailed]

\* clock: the last second the database clock may show
Generate(bodies, responses, cap, clock) ==
    \E data \in bodies, response \in responses :
    \E dbFail \in IF CallFails(response) THEN {FALSE} ELSE BOOLEAN :
    \E t \in IF CallFails(response) \/ dbFail THEN {LastStamp(store)}
             ELSE LastStamp(store)..clock :
        LET r == generate_image(store, data, t, response, dbFail)
        IN  /\ Len(r.store) <= cap
            /\ (r.store = store => t = LastStamp(store))
            /\ (r.dbStmts = 0 => ~dbFail)
            /\ store' = r.store
            /\ last' = Record("generate", data, r,
                              r.hfCalls > 0 /\ CallFails(response),
                              r.dbStmts > 0 /\ dbFail)
            /\ UNCHANGED <<proc, txn>>

\* int(data.get('num_variations', 4))
Requested(data) == ToInt(Get(data, "num_variations", Num(4)))

Variations(bodies, randoms, clock) ==
    \E data \in bodies :
    \E up \in UpstreamBatches(Requested(data), MaxRows - Len(store), randoms) :
    \E dbFailAt \in IF up.failAt = 0 THEN 0..Requested(data) ELSE {0} :
    \E t \in IF up.failAt = 0 /\ dbFailAt = 0 THEN LastStamp(store)..clock
             ELSE {LastStamp(store)} :
    \E tickAt \in IF up.failAt = 0 /\ dbFailAt = 0 /\ t < clock
                  THEN 0..Requested(data) ELSE {0} :
        LET n == Requested(data)
            r == generate_variations(store, data, Stamps(n, t, tickAt), up, dbFailAt)
        IN  /\ (r.store = store => tickAt = 0 /\ t = LastStamp(store))
            /\ (r.dbStmts = 0 => dbFailAt = 0)
            /\ store' = r.store
            /\ last' = Record("variations", data, r,
                              r.hfCalls > 0 /\ CallFails(Answer(up, r.hfCalls)),
                              r.dbStmts > 0 /\ dbFailAt = r.dbStmts)
            /\ UNCHANGED <<proc, txn>>

ListImages(argsets) ==
    \E args \in argsets, order \in Orderings(store), dbFail \in BOOLEAN :
        LET r == get_images(store, args, order, dbFail)
        IN  /\ store' = r.store
            /\ last' = Record("list", args, r, FALSE, r.dbStmts > 0 /\ dbFail)
            /\ UNCHANGED <<proc, txn>>

GetImage ==
    \E image_id \in ImageIds, dbFail \in BOOLEAN :
        LET r == get_image(store, image_id, dbFail)
        IN  /\ store' = r.store
            /\ last' = Record("get", "image_id" :> image_id, r, FALSE,
                              r.dbStmts > 0 /\ dbFail)
            /\ UNCHANGED <<proc, txn>>

SaveFeedback ==
    \E data \in FeedbackBodies, dbFail \in BOOLEAN :
        LET r == save_feedback(store, data, dbFail)
        IN  /\ store' = r.store
            /\ last' = Record("feedback", data, r, FALSE, r.dbStmts > 0 /\ dbFail)
            /\ UNCHANGED <<proc, txn>>

NoRequest ==
    [op |-> "none", data |-> EmptyDict, status |-> 0, body |-> <<>>,
     hfCalls |-> 0, dbStmts |-> 0, upFailed |-> FALSE, dbFailed |-> FALSE]

Init ==
    /\ store = <<>>
    /\ last = NoRequest
    /\ proc = <<>>
    /\ txn = [owner |-> 0, rows |-> <<>>]

\* the whole API, one request after the other, all within one second
Next ==
    \/ Generate(BasicGenerateBodies, Responses, MaxRows, 0)
    \/ Variations(BasicVariationBodies, {3}, 0)
    \/ ListImages(BasicListArgs)
    \/ GetImage
    \/ SaveFeedback

Spec == Init /\ [][Next]_vars

\* the two endpoints that create rows, with every kind of request, all
\* within one second
NextCreate ==
    \/ Generate(GenerateBodies, Responses, MaxRows, 0)
    \/ Variations(VariationBodies, {3, 4}, 0)

SpecCreate == Init /\ [][NextCreate]_vars

\* creation and listing, while the clock runs
NextListing ==
    \/ Generate({"prompt" :> "a cat"}, GoodResponses \cup SeededResponses,
                MaxRows, MaxClock)
    \/ Variations({VariationBody(2)}, {3}, MaxClock)
    \/ ListImages(ListArgs)

SpecListing == Init /\ [][NextListing]_vars

\* the generate endpoint alone, probed at its validation bounds while the
\* inference endpoint is down
NextValidation == Generate(BoundaryBodies, BadResponses, 0, 0)

SpecValidation == Init /\ [][NextValidation]_vars

----------------------------------------------------------------------------
(* Two save_feedback requests handled at the same time, each on its own    *)
(* connection.  The handler's statements are separate steps: the checks of *)
(* the body, the UPDATE (which takes sqlite's write lock, and waits while  *)
(* another connection holds it) and the commit that ends the `with` block. *)
(* An uncommitted UPDATE is seen by its own connection only.               *)

Procs == {1, 2}

\* tables the sequential API reaches: n generated rows, feedback still 0
RECURSIVE Seeded(_)
Seeded(n) ==
    IF n = 0 THEN <<>>
    ELSE generate_image(Seeded(n - 1), ("prompt" :> "a cat") @@ ("seed" :> 7), 0,
                        [status |-> 200, content |-> PngBytes, seed |-> None],
                        FALSE).store

SeededStores ==
    {Seeded(n) : n \in 1..MaxRows}
        \cup {save_feedback(Seeded(n), ("image_id" :> 1) @@ ("feedback" :> IntFeedback(f)),
                            FALSE).store : n \in 1..MaxRows, f \in {-1, 1}}

InitConcurrent ==
    /\ store \in SeededStores
    /\ last = NoRequest
    /\ proc \in [Procs -> {[pc |-> "request", data |-> d, status |-> 0, turn |-> 0] :
                              d \in FeedbackBodies}]
    /\ txn = [owner |-> 0, rows |-> <<>>]

\* lines 232-242: the checks of the body
FbValidate(p) ==
    /\ proc[p].pc = "request"
    /\ LET r == save_feedback(store, proc[p].data, FALSE)
       IN  proc' = [proc EXCEPT ![p] =
                IF r.dbStmts = 0
                THEN [@ EXCEPT !.pc = "done", !.status = r.status]
                ELSE [@ EXCEPT !.pc = "update"]]
    /\ UNCHANGED <<store, last, txn>>

\* lines 245-251: the UPDATE in a transaction of its own, and its rowcount
FbUpdate(p) ==
    /\ proc[p].pc = "update"
    /\ txn.owner = 0
    /\ LET image_id == proc[p].data["image_id"]
           feedback == proc[p].data["feedback"]
       IN  /\ txn' = [owner |-> p,
                      rows |-> UpdateFeedback(store, image_id, feedback.v)]
           /\ proc' = [proc EXCEPT ![p] =
                [@ EXCEPT !.pc = "commit",
                          !.status = IF RowCount(store, image_id) = 0
                                     THEN 404 ELSE 200]]
    /\ UNCHANGED <<store, last>>

\* lines 253-255: conn.commit() and the end of the `with` block
FbCommit(p) ==
    /\ proc[p].pc = "commit"
    /\ txn.owner = p
    /\ store' = ConnExit(store, txn.rows, FALSE)
    /\ txn' = [owner |-> 0, rows |-> <<>>]
    /\ proc' = [proc EXCEPT ![p] =
            [@ EXCEPT !.pc = "done",
                      !.turn = 1 + Cardinality({q \in Procs : proc[q].turn > 0})]]
    /\ UNCHANGED last

NextConcurrent ==
    \E p \in Procs : FbValidate(p) \/ FbUpdate(p) \/ FbCommit(p)

SpecConcurrent == InitConcurrent /\ [][NextConcurrent]_vars

----------------------------------------------------------------------------
(* Properties *)

\* the first n rows of the table are what they were
PrefixKept(n) == Len(store') >= n /\ SubSeq(store', 1, n) = SubSeq(store, 1, n)

RowIds(rows) == {rows[i].id : i \in 1..Len(rows)}

DistinctIds(rows) ==
    \A i, j \in 1..Len(rows) : i # j => rows[i].id # rows[j].id

\* the parameters of a variations request, as its rows must record them
RequestedParams(data) ==
    [negative_prompt |-> Get(data, "negative_prompt", ""),
     strength |-> Get(data, "strength", 75),
     num_inference_steps |-> ToInt(Get(data, "num_inference_steps", Num(50))),
     guidance_scale |-> Get(data, "guidance_scale", 750)]

\* the step handles a variations request for n images and makes k calls
VariationsStep(k, n) ==
    /\ last'.op = "variations"
    /\ last'.hfCalls = k
    /\ Requested(last'.data) = n

\* C1: a variations request for N images (1 <= N <= 10) of which one call to
\* the endpoint fails persists nothing and returns a server error; when all N
\* calls succeed (and the storage engine raises no error) exactly N rows are
\* added, all ids are pairwise distinct, and every new row holds the
\* parameters of this request.
C1_AllOrNothing ==
    [][\A n \in 1..10 : \A k \in 1..n :
        VariationsStep(k, n) =>
          /\ last'.upFailed => store' = store /\ last'.status = 500
          /\ (k = n /\ ~last'.upFailed /\ ~last'.dbFailed) =>
                /\ last'.status = 200
                /\ Len(store') = Len(store) + n
                /\ PrefixKept(Len(store))
                /\ DistinctIds(store')
                /\ \A i \in (Len(store) + 1)..Len(store') :
                      store'[i].params = RequestedParams(last'.data)]_vars

\* two variations have been stored
C1_Witness ==
    /\ last.op = "variations"
    /\ last.status = 200
    /\ last.hfCalls = 2
    /\ Len(store) = 2
    /\ store[1].id # store[2].id
    /\ store[2].params.strength = 100

\* every validated value of a generate body is within its bounds
InBounds(data) ==
    /\ data["height"] >= Num(128) /\ data["height"] <= Num(1024)
    /\ data["width"] >= Num(128) /\ data["width"] <= Num(1024)
    /\ data["num_inference_steps"] >= Num(1)
    /\ data["num_inference_steps"] <= Num(150)
    /\ data["guidance_scale"] >= Num(1) /\ data["guidance_scale"] <= Num(20)

\* some validated value is one unit or more outside its bounds
UnitOutside(data) ==
    \/ data["height"] <= Num(127) \/ data["height"] >= Num(1025)
    \/ data["width"] <= Num(127) \/ data["width"] >= Num(1025)
    \/ data["num_inference_steps"] <= Num(0)
    \/ data["num_inference_steps"] >= Num(151)
    \/ data["guidance_scale"] <= Num(0) \/ data["guidance_scale"] >= Num(21)

\* C2: a generate request with a prompt whose height and width are in
\* [128,1024], steps in [1,150] and guidance scale in [1.0,20.0] passes
\* validation and reaches the inference call; with one of them one unit
\* outside its bound it is answered 400 and neither the endpoint nor the
\* store is used.
C2_ValidationBounds ==
    (last.op = "generate" /\ "prompt" \in DOMAIN last.data) =>
        /\ InBounds(last.data) => last.status # 400 /\ last.hfCalls = 1
        /\ UnitOutside(last.data) =>
              last.status = 400 /\ last.hfCalls = 0 /\ last.dbStmts = 0

\* a request at the bounds has reached the endpoint
C2_Witness ==
    /\ last.op = "generate"
    /\ last.hfCalls = 1
    /\ last.data["height"] = Num(128)
    /\ last.data["width"] = Num(1024)
    /\ last.data["num_inference_steps"] = Num(150)
    /\ last.data["guidance_scale"] = Num(1)

\* a feedback body with both keys and an integer value among -1, 0, 1
ValidFeedbackBody(data) ==
    /\ "image_id" \in DOMAIN data
    /\ "feedback" \in DOMAIN data
    /\ data["feedback"].t = "int"
    /\ data["feedback"].v \in {-1, 0, 1}

\* C3: saveFeedback with a valid value v on an id that is not in the table is
\* answered 404 and changes no row; on an id that is in the table it succeeds
\* (the storage engine raising no error) and a getImage of that id that
\* follows returns feedback = v.
C3_FeedbackVisible ==
    [][(last'.op = "feedback" /\ ValidFeedbackBody(last'.data) /\ ~last'.dbFailed) =>
        LET image_id == last'.data["image_id"]
            v == last'.data["feedback"].v
            got == get_image(store', image_id, FALSE)
        IN  IF image_id \in RowIds(store)
            THEN last'.status = 200 /\ got.status = 200 /\ got.body.feedback = v
            ELSE last'.status = 404 /\ store' = store]_vars

\* feedback -1 has been saved on row 2
C3_Witness ==
    /\ last.op = "feedback"
    /\ last.status = 200
    /\ last.data["image_id"] = 2
    /\ last.data["feedback"].v = -1
    /\ get_image(store, 2, FALSE).body.feedback = -1

\* the ids of a listing
BodyIds(body) == [i \in 1..Len(body) |-> body[i].id]

\* newest first: the ids in the reverse of the insertion order
NewestFirst(rows) == [i \in 1..Len(rows) |-> rows[Len(rows) + 1 - i].id]

\* C4: listImages(limit, offset) with limit in [1,100] and offset >= 0
\* returns the slice [offset, offset+limit) of the records in reverse
\* insertion order, however close in time they were inserted.
C4_NewestFirst ==
    (last.op = "list" /\ last.status = 200) =>
        BodyIds(last.body) =
            Page(NewestFirst(store), Get(last.data, "limit", 20),
                 Get(last.data, "offset", 0))

\* C5: saveFeedback answers 400, before any storage statement, to every
\* feedback value that is not an integer among -1, 0, 1, and the feedback of
\* every row is among -1, 0, 1.
C5_FeedbackRejected ==
    /\ (/\ last.op = "feedback"
        /\ "image_id" \in DOMAIN last.data
        /\ "feedback" \in DOMAIN last.data
        /\ ~ValidFeedbackBody(last.data))
            => last.status = 400 /\ last.dbStmts = 0
    /\ \A i \in 1..Len(store) : store[i].feedback \in {-1, 0, 1}

\* the step handles a variations request whose second or later INSERT raises
LateInsertFailure ==
    last'.op = "variations" /\ last'.dbFailed /\ last'.dbStmts > 1

C7_GenerateAtomic ==
    [][last'.op = "generate" =>
        /\ last'.upFailed => last'.status = 500 /\ store' = store
        /\ last'.status = 200 =>
              /\ last'.hfCalls = 1 /\ ~last'.upFailed
              /\ Len(store') = Len(store) + 1
              /\ PrefixKept(Len(store))
              /\ store'[Len(store')].id = last'.body.id
        /\ last'.status # 200 => store' = store]_vars

\* a second image has been generated
C7_Witness ==
    /\ last.op = "generate"
    /\ last.status = 200
    /\ Len(store) = 2
    /\ last.body.id = 2
    /\ store[2].id = 2

\* C8: every row ever created stays in the table with its id, prompt,
\* image_data, created_at, seed and params as inserted; only feedback
\* changes, and only a saveFeedback request changes it.
C8_OnlyFeedbackChanges ==
    [][\A i \in 1..Len(store) :
        /\ i <= Len(store')
        /\ [store'[i] EXCEPT !.feedback = 0] = [store[i] EXCEPT !.feedback = 0]
        /\ store'[i].feedback # store[i].feedback => last'.op = "feedback"]_vars

\* both rows have had their feedback changed
C8_Witness ==
    /\ last.op = "feedback"
    /\ last.status = 200
    /\ Len(store) = 2
    /\ store[1].seed = 7
    /\ store[1].feedback = 1
    /\ store[2].feedback = -1

\* C9: a generate request whose prompt is missing or empty is answered 400
\* without a call to the endpoint or the store, and every row has a
\* non-empty prompt.
C9_PromptRequired ==
    /\ (last.op = "generate" /\ Get(last.data, "prompt", "") = "")
            => last.status = 400 /\ last.hfCalls = 0 /\ last.dbStmts = 0
    /\ \A i \in 1..Len(store) : store[i].prompt # ""

\* both requests are done, with valid values, on the same row of the table
SameRowRace ==
    /\ \A p \in Procs : proc[p].pc = "done" /\ ValidFeedbackBody(proc[p].data)
    /\ proc[1].data["image_id"] = proc[2].data["image_id"]
    /\ proc[1].data["image_id"] \in RowIds(store)

RaceOutcome ==
    SameRowRace =>
        /\ \A p \in Procs : proc[p].status = 200
        /\ \E p \in Procs :
              /\ proc[p].turn = 2
              /\ SelectById(store, proc[p].data["image_id"])[1].feedback
                    = proc[p].data["feedback"].v

RaceFrame ==
    /\ Len(store') = Len(store)
    /\ \A i \in 1..Len(store) :
          \/ store'[i] = store[i]
          \/ \E p \in Procs :
                /\ proc[p].pc = "commit" /\ proc'[p].pc = "done"
                /\ proc[p].data["image_id"] = store[i].id
                /\ store'[i] = [store[i] EXCEPT
                                  !.feedback = proc[p].data["feedback"].v]

\* C10: two saveFeedback requests with valid values v1 and v2 on the same
\* row, handled at the same time, both succeed; once both are done the row's
\* feedback is the value of the one that committed last; and a step changes
\* nothing but the feedback of the row its request names.
C10_LastWriterWins == []RaceOutcome /\ [][RaceFrame]_vars

\* request 2 committed -1 first, request 1 committed 1 last
C10_Witness ==
    /\ SameRowRace
    /\ Len(store) = 2
    /\ proc[1].data["image_id"] = 2
    /\ proc[1].data["feedback"].v = 1
    /\ proc[2].data["feedback"].v = -1
    /\ proc[2].turn = 1
    /\ proc[1].turn = 2
    /\ store[2].feedback = 1

====
